---- MODULE Spec2Model ----
(***************************************************************************)
(* Model of the concurrent terminal-animation engine of src/ui.py:         *)
(* Spinner (foreground start/stop, background _animate loop), the          *)
(* TerminalUI.spinner context manager with the _active_spinners list, the  *)
(* signal handler that runs _cleanup, ProgressBar, MultiProgress with its  *)
(* ManagedProgressBars, and the run() of MatrixRain and FireEffect.        *)
(*                                                                         *)
(* The main thread is a call stack of frames; every frame step is one      *)
(* statement of the source.  Signal handlers run on the main thread, on    *)
(* top of whatever frame is executing.  Each Spinner.start() launches one  *)
(* background thread that runs _animate.                                   *)
(***************************************************************************)
EXTENDS Integers, Sequences, FiniteSets, TLC

NSpinners == 1      \* Spinner objects the program may construct
MaxThreads == 2     \* background threads the program may launch
MaxSignals == 2     \* SIGINT/SIGTERM deliveries
MaxBlockSignals == 1  \* deliveries to a program of ui.spinner blocks

MaxTotal == 3       \* largest ProgressBar total
MaxAmount == 1      \* largest argument of ProgressBar.update
MaxCalls == 3       \* ProgressBar calls the program makes
MaxTime == 6        \* clock horizon, in units of 0.025 s
MaxClock == 3       \* clock horizon of a bar called at any moment
BarWidth == 4       \* ProgressBar.width, the cells of the bar
Throttle == 2       \* 0.05 s, in units of 0.025 s
MaxPctTotal == 50   \* largest total of a bar whose percentage is examined

NBars == 2          \* names a MultiProgress may register
NCallers == 2       \* threads that call the MultiProgress and its bars
MTotal == 1         \* total of every bar of the MultiProgress
MaxMCalls == 4      \* calls made on the MultiProgress and its bars

MaxFrames == 3      \* loop iterations of an effect within its duration

MaxMsgs == 1        \* distinct texts passed to update_message / update_suffix
MaxUpdates == 2     \* update_message / update_suffix calls the program makes
NFrames == 2        \* len(self.frames) of the spinner style
MaxTicks == 3        \* frames one _animate loop writes
RainWidth == 2       \* self.ui.width: screen columns of MatrixRain
RainHeight == 2      \* terminal height - 2: rows of MatrixRain
MaxSpeed == 2        \* largest column speed, in half rows per iteration
RespawnMin == 5      \* -random.randint(5, 15): rows above the screen
RespawnMax == 15
FireWidth == 3       \* self.width of FireEffect
FireHeight == 3      \* self.height of FireEffect
MaxHeat == 9         \* len(self.fire_chars) - 1
MaxCooling == 2      \* random.randint(0, 2)
NUIs == 2            \* TerminalUI instances the program constructs
NBlocks == 2         \* threads that run a `with ui.spinner(...)` block

Spinners == 1..NSpinners
Threads == 1..MaxThreads

VARIABLES
    exists,           \* exists[s]: Spinner.__init__ has run for s
    scoped,           \* scoped[s]: s was constructed by TerminalUI.spinner
    running,          \* Spinner.running
    thread,           \* Spinner.thread (0 is None, else a thread id)
    state,            \* lifecycle of s as the specification names it
    active_spinners,  \* TerminalUI._active_spinners (a list)
    stack,            \* main thread's call stack, top first
    raising,          \* exception propagating in the main thread
    tpc,              \* tpc[t]: position of thread t inside _animate
    towner,           \* towner[t]: the Spinner whose _animate thread t runs
    line,             \* what the terminal line shows: 0 blank, s a frame of s
    cursor,           \* TRUE when the terminal cursor is visible
    signals,          \* signals delivered so far
    exited,           \* the process has exited
    ev                \* the last thing the main thread did (observation)

VARIABLES
    total,            \* ProgressBar.total
    current,          \* ProgressBar.current
    show_percentage,  \* ProgressBar.show_percentage
    show_eta,         \* ProgressBar.show_eta
    start_time,       \* ProgressBar.start_time
    last_update,      \* ProgressBar.last_update
    painted,          \* the time of the bar's last _render (start_time if none)
    now,              \* time.time(), in units of 0.025 s
    out,              \* the progress line the terminal shows
    renders,          \* number of _render() calls so far
    newlines,         \* number of print() calls of finish() so far
    calls,            \* ProgressBar calls made so far
    pev,              \* the last ProgressBar call (observation)
    pscope            \* the `with ui.progress(...)` block around the bar

svars == <<exists, scoped, running, thread, state, active_spinners, stack,
           raising, tpc, towner, line, cursor, signals, exited, ev>>

pvars == <<total, current, show_percentage, show_eta, start_time, last_update,
           painted,
           now, out, renders, newlines, calls, pev, pscope>>

VARIABLES
    progress_bars,    \* MultiProgress.progress_bars: the names, in dict order
    bars,             \* the names whose ManagedProgressBar has been created
    bcurrent,         \* bcurrent[n]: current of the bar named n
    lock,             \* MultiProgress.lock: 0 free, else the holding caller
    mpc,              \* mpc[t]: position of caller t inside MultiProgress
    marg,             \* marg[t]: the name argument of caller t's call
    mi,               \* mi[t]: loop counter of caller t's render_all
    mk,               \* mk[t]: len(self.progress_bars) as render_all read it
    trace,            \* terminal operations of the render_all in progress
    prev_painted,     \* lines the previous render_all painted
    mcalls,           \* calls made on the MultiProgress and its bars
    mev               \* the last direct call on a bar (observation)

VARIABLES
    ekind,            \* the effect whose run() was called: "matrix" or "fire"
    epc,              \* position inside run()
    edebug,           \* TerminalUI.debug
    ecursor,          \* terminal cursor visible
    escreen,          \* what the screen shows: "text", "frame" or "cleared"
    eexc,             \* exception propagating out of run()
    eframes,          \* loop iterations completed
    edensity,         \* MatrixRain.density, in hundredths
    columns,          \* MatrixRain.run's local list: a column or NoColumn
    epainted,         \* glyphs written by the last loop iteration
    fire,             \* FireEffect.run's local heat buffer: fire[y][x]
    fy,               \* the row the update loops of FireEffect are at
    fx                \* the column the update loops of FireEffect are at

mvars == <<progress_bars, bars, bcurrent, lock, mpc, marg, mi, mk, trace,
           prev_painted, mcalls, mev>>

xvars == <<ekind, epc, edebug, ecursor, escreen, eexc, eframes, edensity,
           columns, epainted, fire, fy, fx>>

VARIABLES
    message,          \* Spinner.message
    suffix,           \* Spinner.suffix
    assigned,         \* assigned[s]: the message and suffix values given to s
    updates,          \* update_message / update_suffix calls made
    shown,            \* the message and suffix a loop last read for a frame
    frame_index,      \* frame_index[t]: the local of thread t's _animate
    glyphs,           \* glyphs[s]: frames written for s since its last start
    held,             \* held[s]: the <<message, suffix>> pairs s has held
    fread             \* fread[t]: the message thread t's f-string has read

fvars == <<message, suffix, assigned, updates, shown, frame_index, glyphs,
           held, fread>>

VARIABLES
    created,          \* TerminalUI instances constructed so far
    handler,          \* the instance whose signal_handler is installed, or 0
    lists,            \* lists[u]: the list u._active_spinners
    bui,              \* bui[b]: the instance of block b's ui.spinner(...)
    bpc,              \* bpc[b]: position of block b's thread in ui.spinner
    brunning,         \* brunning[b]: Spinner.running of block b's spinner
    gpc,              \* position of the main thread inside signal_handler
    gu,               \* the instance whose _cleanup the handler runs
    gi,               \* index of the list iterator of _cleanup's for loop
    gcur,             \* the loop variable `spinner` of _cleanup
    gstopped,         \* spinners _cleanup has called _stop() on
    gkept,            \* spinners registered since the signal was delivered
    gran,             \* spinners that were running when the signal came
    gcursor,          \* terminal cursor visible
    gfailed           \* a list operation has raised

gvars == <<created, handler, lists, bui, bpc, brunning, gpc, gu, gi, gcur,
           gstopped, gkept, gran, gcursor, gfailed>>

vars == <<svars, pvars, mvars, xvars, fvars, gvars>>

(***************************************************************************)
(* Frames and observations                                                 *)
(***************************************************************************)
Frame(op, s, pc) == [op |-> op, s |-> s, pc |-> pc, exc |-> "none", n |-> 0]

NoEv == [kind |-> "none", s |-> 0, n |-> 0, listed |-> FALSE,
         bodyExc |-> "none", outExc |-> "none", intr |-> FALSE, alive |-> FALSE]

Top == stack[1]
Push(f, st) == <<f>> \o st
Running == raising = "none" /\ ~exited

\* the main program is at a point where it may issue a new call: at top
\* level, or inside the body of a `with ui.spinner(...)` block
CanCall ==
    /\ Running
    /\ IF stack = <<>> THEN TRUE
       ELSE Top.op = "spinner" /\ Top.pc = "body"

At(op, pc) ==
    /\ Running
    /\ IF stack = <<>> THEN FALSE ELSE Top.op = op /\ Top.pc = pc

is_alive(t) == t # 0 /\ tpc[t] \notin {"unborn", "dead"}

RECURSIVE RemoveFirst(_, _)
RemoveFirst(seq, x) ==
    IF seq = <<>> THEN <<>>
    ELSE IF Head(seq) = x THEN Tail(seq)
    ELSE <<Head(seq)>> \o RemoveFirst(Tail(seq), x)

InList(seq, x) == \E i \in 1..Len(seq) : seq[i] = x

FreshThread == CHOOSE t \in Threads : tpc[t] = "unborn"
HasFreshThread == \E t \in Threads : tpc[t] = "unborn"

(***************************************************************************)
(* Spinner.__init__                                                        *)
(***************************************************************************)
SpinnerInit(s) ==
    /\ UNCHANGED <<pvars, mvars, xvars, fvars, gvars>>
    /\ CanCall
    /\ ~exists[s]
    /\ exists' = [exists EXCEPT ![s] = TRUE]
    /\ running' = [running EXCEPT ![s] = FALSE]
    /\ thread' = [thread EXCEPT ![s] = 0]
    /\ state' = [state EXCEPT ![s] = "CREATED"]
    /\ ev' = NoEv
    /\ UNCHANGED <<scoped, active_spinners, stack, raising, tpc, towner, line,
                   cursor, signals, exited>>

(***************************************************************************)
(* Spinner.start                                                           *)
(***************************************************************************)
\* a start that does not look at self.running
start_flag_unguarded(s, rest) ==
    /\ running' = [running EXCEPT ![s] = TRUE]
    /\ state' = [state EXCEPT ![s] = "RUNNING"]
    /\ stack' = Push(Frame("start", s, "hide"), rest)
    /\ ev' = NoEv

\* Entry of start() on s, called from a caller whose stack is `rest`:
\* if self.running: return / self.running = True
start_flag(s, rest) ==
    IF running[s]
    THEN /\ stack' = rest
         /\ ev' = [NoEv EXCEPT !.kind = "start_noop", !.s = s]
         /\ UNCHANGED <<running, state>>
    ELSE /\ running' = [running EXCEPT ![s] = TRUE]
         /\ state' = [state EXCEPT ![s] = "RUNNING"]
         /\ stack' = Push(Frame("start", s, "hide"), rest)
         /\ ev' = NoEv

\* the program calls start() on a Spinner it holds
call_start(s) ==
    /\ UNCHANGED <<pvars, mvars, xvars, fvars, gvars>>
    /\ CanCall
    /\ exists[s]
    /\ running[s] \/ HasFreshThread
    /\ start_flag(s, stack)
    /\ UNCHANGED <<exists, scoped, thread, active_spinners, raising, tpc,
                   towner, line, cursor, signals, exited>>

\* self.ui.hide_cursor()
start_hide ==
    /\ UNCHANGED <<pvars, mvars, xvars, fvars, gvars>>
    /\ At("start", "hide")
    /\ cursor' = FALSE
    /\ stack' = <<[Top EXCEPT !.pc = "spawn"]>> \o Tail(stack)
    /\ ev' = NoEv
    /\ UNCHANGED <<exists, scoped, running, thread, state, active_spinners,
                   raising, tpc, towner, line, signals, exited>>

\* self.thread = threading.Thread(target=self._animate); self.thread.start()
start_spawn ==
    /\ UNCHANGED <<pvars, mvars, xvars, gvars>>
    /\ At("start", "spawn")
    /\ HasFreshThread
    /\ glyphs' = [glyphs EXCEPT ![Top.s] = <<>>]
    /\ UNCHANGED <<message, suffix, assigned, updates, shown, frame_index,
                   held, fread>>
    /\ thread' = [thread EXCEPT ![Top.s] = FreshThread]
    /\ tpc' = [tpc EXCEPT ![FreshThread] = "check"]
    /\ towner' = [towner EXCEPT ![FreshThread] = Top.s]
    /\ stack' = Tail(stack)
    /\ ev' = [NoEv EXCEPT !.kind = "start_ret", !.s = Top.s]
    /\ UNCHANGED <<exists, scoped, running, state, active_spinners, raising,
                   line, cursor, signals, exited>>

(***************************************************************************)
(* Spinner.stop / Spinner._stop                                            *)
(***************************************************************************)
\* a _stop that does not look at self.running
stop_flag_unguarded(s, rest) ==
    /\ running' = [running EXCEPT ![s] = FALSE]
    /\ state' = [state EXCEPT ![s] = "STOPPING"]
    /\ stack' = Push(Frame("_stop", s, "join"), rest)
    /\ ev' = NoEv

\* Entry of _stop() on s, called from a caller whose stack is `rest`:
\* if not self.running: return / self.running = False
stop_flag(s, rest) ==
    IF ~running[s]
    THEN /\ stack' = rest
         /\ ev' = [NoEv EXCEPT !.kind = "stop_noop", !.s = s]
         /\ UNCHANGED <<running, state>>
    ELSE /\ running' = [running EXCEPT ![s] = FALSE]
         /\ state' = [state EXCEPT ![s] = "STOPPING"]
         /\ stack' = Push(Frame("_stop", s, "join"), rest)
         /\ ev' = NoEv

\* the program calls stop() on a Spinner it holds; stop() is self._stop()
call_stop(s) ==
    /\ UNCHANGED <<pvars, mvars, xvars, fvars, gvars>>
    /\ CanCall
    /\ exists[s]
    /\ stop_flag(s, stack)
    /\ UNCHANGED <<exists, scoped, thread, active_spinners, raising, tpc,
                   towner, line, cursor, signals, exited>>

\* a join without a timeout: returns only once the thread has exited
stop_join_untimed ==
    /\ UNCHANGED <<pvars, mvars, xvars, fvars, gvars>>
    /\ At("_stop", "join")
    /\ ~is_alive(thread[Top.s])
    /\ stack' = <<[Top EXCEPT !.pc = "clear"]>> \o Tail(stack)
    /\ ev' = NoEv
    /\ UNCHANGED <<exists, scoped, running, thread, state, active_spinners,
                   raising, tpc, towner, line, cursor, signals, exited>>

\* if self.thread and self.thread.is_alive(): self.thread.join(timeout=0.1)
\* The step is taken when there is nothing to join, when the thread has
\* exited, or when the timeout expires with the thread still alive.
stop_join ==
    /\ UNCHANGED <<pvars, mvars, xvars, fvars, gvars>>
    /\ At("_stop", "join")
    /\ stack' = <<[Top EXCEPT !.pc = "clear"]>> \o Tail(stack)
    /\ ev' = NoEv
    /\ UNCHANGED <<exists, scoped, running, thread, state, active_spinners,
                   raising, tpc, towner, line, cursor, signals, exited>>

\* self.ui.clear_line()
stop_clear ==
    /\ UNCHANGED <<pvars, mvars, xvars, fvars, gvars>>
    /\ At("_stop", "clear")
    /\ line' = 0
    /\ stack' = <<[Top EXCEPT !.pc = "show"]>> \o Tail(stack)
    /\ ev' = NoEv
    /\ UNCHANGED <<exists, scoped, running, thread, state, active_spinners,
                   raising, tpc, towner, cursor, signals, exited>>

\* self.ui.show_cursor(), and _stop returns
stop_show ==
    /\ UNCHANGED <<pvars, mvars, xvars, fvars, gvars>>
    /\ At("_stop", "show")
    /\ cursor' = TRUE
    /\ state' = [state EXCEPT ![Top.s] = "STOPPED"]
    /\ stack' = Tail(stack)
    /\ ev' = [NoEv EXCEPT !.kind = "stop_ret", !.s = Top.s,
                          !.alive = is_alive(thread[Top.s])]
    /\ UNCHANGED <<exists, scoped, running, thread, active_spinners, raising,
                   tpc, towner, line, signals, exited>>

(***************************************************************************)
(* Spinner._animate, run by background thread t                            *)
(***************************************************************************)
\* a loop test that never sees the flag cleared
animate_check_deaf(t) ==
    /\ UNCHANGED <<pvars, mvars, xvars, fvars, gvars>>
    /\ ~exited
    /\ tpc[t] = "check"
    /\ tpc' = [tpc EXCEPT ![t] = "clear"]
    /\ UNCHANGED <<exists, scoped, running, thread, state, active_spinners,
                   stack, raising, towner, line, cursor, signals, exited, ev>>

\* while self.running:   (the thread ends when the test fails)
animate_check(t) ==
    /\ UNCHANGED <<pvars, mvars, xvars, fvars, gvars>>
    /\ ~exited
    /\ tpc[t] = "check"
    /\ tpc' = [tpc EXCEPT ![t] = IF running[towner[t]] THEN "clear" ELSE "dead"]
    /\ UNCHANGED <<exists, scoped, running, thread, state, active_spinners,
                   stack, raising, towner, line, cursor, signals, exited, ev>>

\* self.ui.clear_line()
animate_clear(t) ==
    /\ UNCHANGED <<pvars, mvars, xvars, fvars, gvars>>
    /\ ~exited
    /\ tpc[t] = "clear"
    /\ line' = 0
    /\ tpc' = [tpc EXCEPT ![t] = "write"]
    /\ UNCHANGED <<exists, scoped, running, thread, state, active_spinners,
                   stack, raising, towner, cursor, signals, exited, ev>>

\* a text as the loop may see it: whole when head = tail
Str(v) == [head |-> v, tail |-> v]

\* an assignment that lets a reader see the new head with the old tail
store_torn(old, new) == [head |-> new.head, tail |-> old.tail]

\* self.message = message: the attribute is rebound to the new str object
store(old, new) == new

\* frame = self.frames[frame_index % len(self.frames)]; the frames of the
\* style are the glyphs 0 .. NFrames - 1
frame_at(k) == k % NFrames

\* sys.stdout.write(output); sys.stdout.flush(); time.sleep(...); the
\* thread is back at the loop test once the sleep is over
animate_step(t) ==
    /\ UNCHANGED <<pvars, mvars, xvars, gvars>>
    /\ ~exited
    /\ tpc[t] = "write"
    /\ line' = towner[t]
    /\ tpc' = [tpc EXCEPT ![t] = "check"]
    /\ UNCHANGED <<exists, scoped, running, thread, state, active_spinners,
                   stack, raising, towner, cursor, signals, exited, ev>>

\* one pass of the loop body, for specifications that observe neither the
\* texts nor the frame counter
animate_write(t) ==
    /\ tpc[t] = "write"
    /\ animate_step(t)
    /\ UNCHANGED fvars

\* one pass of the loop body, recording the message and the suffix the
\* f-string reads
animate_show(t) ==
    /\ tpc[t] = "write"
    /\ animate_step(t)
    /\ shown' = [s |-> towner[t], message |-> message[towner[t]],
                 suffix |-> suffix[towner[t]]]
    /\ UNCHANGED <<message, suffix, assigned, updates, frame_index, glyphs,
                   held, fread>>

\* {self.message} of the f-string: the loop reads the message attribute
animate_read_message(t) ==
    /\ UNCHANGED <<pvars, mvars, xvars, gvars>>
    /\ ~exited
    /\ tpc[t] = "write"
    /\ tpc' = [tpc EXCEPT ![t] = "suffix"]
    /\ fread' = [fread EXCEPT ![t] = message[towner[t]]]
    /\ UNCHANGED <<message, suffix, assigned, updates, shown, frame_index,
                   glyphs, held>>
    /\ UNCHANGED <<exists, scoped, running, thread, state, active_spinners,
                   stack, raising, towner, line, cursor, signals, exited, ev>>

\* {self.suffix} of the f-string, read after the message, and the rest of
\* the loop body: the frame written shows the message read before with the
\* suffix read now
animate_read_suffix(t) ==
    /\ UNCHANGED <<pvars, mvars, xvars, gvars>>
    /\ ~exited
    /\ tpc[t] = "suffix"
    /\ line' = towner[t]
    /\ tpc' = [tpc EXCEPT ![t] = "check"]
    /\ UNCHANGED <<exists, scoped, running, thread, state, active_spinners,
                   stack, raising, towner, cursor, signals, exited, ev>>
    /\ shown' = [s |-> towner[t], message |-> fread[t],
                 suffix |-> suffix[towner[t]]]
    /\ UNCHANGED <<message, suffix, assigned, updates, frame_index, glyphs,
                   held, fread>>

\* one pass of the loop body, recording the frame written and
\* frame_index += 1
animate_tick(t) ==
    /\ tpc[t] = "write"
    /\ frame_index[t] < MaxTicks
    /\ animate_step(t)
    /\ glyphs' = [glyphs EXCEPT ![towner[t]] =
                     Append(@, frame_at(frame_index[t]))]
    /\ frame_index' = [frame_index EXCEPT ![t] = frame_index[t] + 1]
    /\ UNCHANGED <<message, suffix, assigned, updates, shown, held, fread>>

\* Spinner.update_message(message), called by the foreground
update_message(s, v) ==
    /\ UNCHANGED <<svars, pvars, mvars, xvars, gvars>>
    /\ CanCall
    /\ exists[s]
    /\ updates < MaxUpdates
    /\ updates' = updates + 1
    /\ message' = [message EXCEPT ![s] = store(@, Str(v))]
    /\ assigned' = [assigned EXCEPT ![s].message = @ \cup {v}]
    /\ held' = [held EXCEPT ![s] = @ \cup {<<v, suffix[s].head>>}]
    /\ UNCHANGED <<suffix, shown, frame_index, glyphs, fread>>

\* Spinner.update_suffix(suffix), called by the foreground
update_suffix(s, v) ==
    /\ UNCHANGED <<svars, pvars, mvars, xvars, gvars>>
    /\ CanCall
    /\ exists[s]
    /\ updates < MaxUpdates
    /\ updates' = updates + 1
    /\ suffix' = [suffix EXCEPT ![s] = store(@, Str(v))]
    /\ assigned' = [assigned EXCEPT ![s].suffix = @ \cup {v}]
    /\ held' = [held EXCEPT ![s] = @ \cup {<<message[s].head, v>>}]
    /\ UNCHANGED <<message, shown, frame_index, glyphs, fread>>

(***************************************************************************)
(* TerminalUI.spinner (context manager)                                    *)
(***************************************************************************)
\* spinner_obj = Spinner(...); self._active_spinners.append(spinner_obj)
spinner_enter(s) ==
    /\ UNCHANGED <<pvars, mvars, xvars, fvars, gvars>>
    /\ CanCall
    /\ ~exists[s]
    /\ HasFreshThread
    /\ exists' = [exists EXCEPT ![s] = TRUE]
    /\ scoped' = [scoped EXCEPT ![s] = TRUE]
    /\ running' = [running EXCEPT ![s] = FALSE]
    /\ thread' = [thread EXCEPT ![s] = 0]
    /\ state' = [state EXCEPT ![s] = "CREATED"]
    /\ active_spinners' = Append(active_spinners, s)
    /\ stack' = Push(Frame("spinner", s, "start"), stack)
    /\ ev' = NoEv
    /\ UNCHANGED <<raising, tpc, towner, line, cursor, signals, exited>>

\* try: spinner_obj.start()
spinner_start ==
    /\ UNCHANGED <<pvars, mvars, xvars, fvars, gvars>>
    /\ At("spinner", "start")
    /\ start_flag(Top.s, <<[Top EXCEPT !.pc = "body"]>> \o Tail(stack))
    /\ UNCHANGED <<exists, scoped, thread, active_spinners, raising, tpc,
                   towner, line, cursor, signals, exited>>

\* yield spinner_obj: the body of the with block returns normally
body_return ==
    /\ UNCHANGED <<pvars, mvars, xvars, fvars, gvars>>
    /\ At("spinner", "body")
    /\ stack' = <<[Top EXCEPT !.pc = "stop"]>> \o Tail(stack)
    /\ ev' = NoEv
    /\ UNCHANGED <<exists, scoped, running, thread, state, active_spinners,
                   raising, tpc, towner, line, cursor, signals, exited>>

\* the body of the with block raises
body_raise ==
    /\ UNCHANGED <<pvars, mvars, xvars, fvars, gvars>>
    /\ At("spinner", "body")
    /\ raising' = "Error"
    /\ ev' = NoEv
    /\ UNCHANGED <<exists, scoped, running, thread, state, active_spinners,
                   stack, tpc, towner, line, cursor, signals, exited>>

\* finally: spinner_obj.stop()
spinner_stop ==
    /\ UNCHANGED <<pvars, mvars, xvars, fvars, gvars>>
    /\ At("spinner", "stop")
    /\ stop_flag(Top.s, <<[Top EXCEPT !.pc = "remove", !.n = Top.n + 1]>> \o Tail(stack))
    /\ UNCHANGED <<exists, scoped, thread, active_spinners, raising, tpc,
                   towner, line, cursor, signals, exited>>

\* self._active_spinners.remove(spinner_obj); the block is left and the
\* body's exception, if any, is re-raised
spinner_remove ==
    /\ UNCHANGED <<pvars, mvars, xvars, fvars, gvars>>
    /\ At("spinner", "remove")
    /\ InList(active_spinners, Top.s)
    /\ active_spinners' = RemoveFirst(active_spinners, Top.s)
    /\ stack' = Tail(stack)
    /\ raising' = Top.exc
    /\ ev' = [NoEv EXCEPT !.kind = "with_exit", !.s = Top.s, !.n = Top.n,
                          !.listed = InList(active_spinners', Top.s),
                          !.bodyExc = Top.exc, !.outExc = Top.exc]
    /\ UNCHANGED <<exists, scoped, running, thread, state, tpc, towner, line,
                   cursor, signals, exited>>

(***************************************************************************)
(* Exceptions in the main thread                                           *)
(***************************************************************************)
\* a with block whose generator has no try/finally
InTryNoFinally(f) == FALSE

\* the frame is inside the try of TerminalUI.spinner
InTry(f) == f.op = "spinner" /\ f.pc \in {"start", "body"}

propagate ==
    /\ UNCHANGED <<pvars, mvars, xvars, fvars, gvars>>
    /\ ~exited
    /\ raising # "none"
    /\ IF stack = <<>>
       THEN \* the caller of the outermost call observes the exception;
            \* SystemExit ends the process
            /\ exited' = (raising = "SystemExit")
            /\ raising' = "none"
            /\ ev' = [NoEv EXCEPT !.kind = "caught", !.outExc = raising]
            /\ UNCHANGED stack
       ELSE IF InTry(Top)
       THEN /\ stack' = <<[Top EXCEPT !.pc = "stop", !.exc = raising]>> \o Tail(stack)
            /\ raising' = "none"
            /\ ev' = NoEv
            /\ UNCHANGED exited
       ELSE /\ stack' = Tail(stack)
            /\ ev' = IF Top.op = "spinner"
                     THEN [NoEv EXCEPT !.kind = "with_exit", !.s = Top.s, !.n = Top.n,
                                       !.listed = InList(active_spinners, Top.s),
                                       !.bodyExc = IF Top.pc \in {"stop", "remove"}
                                                   THEN Top.exc ELSE raising,
                                       !.outExc = raising,
                                       !.intr = Top.pc \in {"stop", "remove"}]
                     ELSE NoEv
            /\ UNCHANGED <<raising, exited>>
    /\ UNCHANGED <<exists, scoped, running, thread, state, active_spinners,
                   tpc, towner, line, cursor, signals>>

(***************************************************************************)
(* TerminalUI._setup_signal_handlers / TerminalUI._cleanup                 *)
(***************************************************************************)
\* SIGINT or SIGTERM is delivered: signal_handler starts on the main thread
signal_handler ==
    /\ UNCHANGED <<pvars, mvars, xvars, fvars, gvars>>
    /\ Running
    /\ signals < MaxSignals
    /\ signals' = signals + 1
    /\ stack' = Push([Frame("handler", 0, "iter") EXCEPT !.n = 1], stack)
    /\ ev' = NoEv
    /\ UNCHANGED <<exists, scoped, running, thread, state, active_spinners,
                   raising, tpc, towner, line, cursor, exited>>

\* for spinner in self._active_spinners: spinner._stop()
cleanup_iter ==
    /\ UNCHANGED <<pvars, mvars, xvars, fvars, gvars>>
    /\ At("handler", "iter")
    /\ IF Top.n <= Len(active_spinners)
       THEN stop_flag(active_spinners[Top.n],
                      <<[Top EXCEPT !.n = Top.n + 1]>> \o Tail(stack))
       ELSE /\ stack' = <<[Top EXCEPT !.pc = "show"]>> \o Tail(stack)
            /\ ev' = NoEv
            /\ UNCHANGED <<running, state>>
    /\ UNCHANGED <<exists, scoped, thread, active_spinners, raising, tpc,
                   towner, line, cursor, signals, exited>>

\* self.show_cursor()
cleanup_show ==
    /\ UNCHANGED <<pvars, mvars, xvars, fvars, gvars>>
    /\ At("handler", "show")
    /\ cursor' = TRUE
    /\ stack' = <<[Top EXCEPT !.pc = "exit"]>> \o Tail(stack)
    /\ ev' = [NoEv EXCEPT !.kind = "cleanup_done"]
    /\ UNCHANGED <<exists, scoped, running, thread, state, active_spinners,
                   raising, tpc, towner, line, signals, exited>>

\* sys.exit(0)
handler_exit ==
    /\ UNCHANGED <<pvars, mvars, xvars, fvars, gvars>>
    /\ At("handler", "exit")
    /\ raising' = "SystemExit"
    /\ stack' = Tail(stack)
    /\ ev' = NoEv
    /\ UNCHANGED <<exists, scoped, running, thread, state, active_spinners,
                   tpc, towner, line, cursor, signals, exited>>

(***************************************************************************)
(* The spinner specification                                               *)
(***************************************************************************)
SInit ==
    /\ exists = [s \in Spinners |-> FALSE]
    /\ scoped = [s \in Spinners |-> FALSE]
    /\ running = [s \in Spinners |-> FALSE]
    /\ thread = [s \in Spinners |-> 0]
    /\ state = [s \in Spinners |-> "NONE"]
    /\ active_spinners = <<>>
    /\ stack = <<>>
    /\ raising = "none"
    /\ tpc = [t \in Threads |-> "unborn"]
    /\ towner = [t \in Threads |-> 0]
    /\ line = 0
    /\ cursor = TRUE
    /\ signals = 0
    /\ exited = FALSE
    /\ ev = NoEv
    /\ message = [s \in Spinners |-> Str(0)]
    /\ suffix = [s \in Spinners |-> Str(0)]
    /\ assigned = [s \in Spinners |-> [message |-> {0}, suffix |-> {0}]]
    /\ updates = 0
    /\ shown = [s |-> 0, message |-> Str(0), suffix |-> Str(0)]
    /\ frame_index = [t \in Threads |-> 0]
    /\ glyphs = [s \in Spinners |-> <<>>]
    /\ held = [s \in Spinners |-> {<<0, 0>>}]
    /\ fread = [t \in Threads |-> Str(0)]

MainStep ==
    \/ \E s \in Spinners : SpinnerInit(s)
    \/ \E s \in Spinners : call_start(s)
    \/ start_hide
    \/ start_spawn
    \/ \E s \in Spinners : call_stop(s)
    \/ stop_join
    \/ stop_clear
    \/ stop_show
    \/ \E s \in Spinners : spinner_enter(s)
    \/ spinner_start
    \/ body_return
    \/ body_raise
    \/ spinner_stop
    \/ spinner_remove
    \/ propagate
    \/ cleanup_iter
    \/ cleanup_show
    \/ handler_exit

ThreadStep ==
    \/ \E t \in Threads : animate_check(t)
    \/ \E t \in Threads : animate_clear(t)
    \/ \E t \in Threads : animate_write(t)

SNext == MainStep \/ ThreadStep \/ signal_handler

(***************************************************************************)
(* ProgressBar                                                             *)
(***************************************************************************)
Min(a, b) == IF a <= b THEN a ELSE b
Max(a, b) == IF a >= b THEN a ELSE b

\* the quotient n / d truncated towards zero, as int() truncates, d # 0
TruncDiv(n, d) ==
    IF d < 0 THEN (IF n <= 0 THEN (-n) \div (-d) ELSE -(n \div (-d)))
    ELSE (IF n >= 0 THEN n \div d ELSE -((-n) \div d))

Abs(n) == IF n < 0 THEN -n ELSE n

\* The pairs (n, d), 0 < n <= 61, 0 < d <= 60, for which the double
\* (n / d) * 100 is just below the integer 100 * n / d, so that int() of it
\* is one short of the exact quotient (the same holds for -n).  For
\* |n| <= 61 and d in 1..60 or d in {-1, -2} every other pair gives the exact
\* quotient, and (n / d) * width is exact for every width up to 6.
FloatShort ==
    {<<23, 5>>, <<23, 10>>, <<23, 20>>, <<29, 25>>, <<29, 50>>, <<41, 5>>,
     <<41, 10>>, <<41, 20>>, <<46, 5>>, <<46, 10>>, <<46, 20>>, <<46, 40>>,
     <<51, 5>>, <<51, 10>>, <<51, 20>>, <<57, 25>>, <<57, 50>>, <<58, 25>>,
     <<58, 50>>}

\* int((c / t) * 100) for t # 0
float_percentage(c, t) ==
    LET q == TruncDiv(c * 100, t)
    IN  IF <<Abs(c), t>> \in FloatShort
        THEN (IF q > 0 THEN q - 1 ELSE q + 1)
        ELSE q

NoLine == [percentage |-> -1, filled |-> 0, empty |-> 0, success |-> FALSE,
           pct_shown |-> FALSE, time_field |-> "none", cur |-> 0, tot |-> 0]

NoPev == [op |-> "none", arg |-> 0, prev |-> 0, rendered |-> FALSE,
          failed |-> FALSE, at |-> 0]

\* no `with ui.progress(...)` block entered yet: pc is the position of the
\* generator of TerminalUI.progress, exc the exception the body raised,
\* raising the exception leaving the block, finishes the finish() calls made
\* by the block itself, intr whether a signal cut the finally clause short
NoScope == [pc |-> "none", exc |-> "none", raising |-> "none", finishes |-> 0,
            intr |-> FALSE]

\* the divisors _render would evaluate without its tests of total
divisors_unguarded(c, t) ==
    {t} \cup (IF show_eta /\ c > 0 /\ c < t THEN {c} ELSE {})

\* the divisors of the divisions _render evaluates: self.total for the
\* percentage unless total == 0, self.total for filled_width if total > 0,
\* self.current for the ETA if show_eta and 0 < current < total
divisors(c, t) ==
    (IF t = 0 THEN {} ELSE {t}) \cup (IF t > 0 THEN {t} ELSE {})
        \cup (IF show_eta /\ c > 0 /\ c < t THEN {c} ELSE {})

\* _render raises ZeroDivisionError before it writes anything
render_fails(c, t) == 0 \in divisors(c, t)

\* ProgressBar._render: the line it writes for (current, total)
\* fill_char * n and empty_char * n are empty strings for n <= 0
render_line(c, t) ==
    LET percentage == IF t = 0 THEN 100 ELSE float_percentage(c, t)
        filled_width == IF t > 0 THEN TruncDiv(c * BarWidth, t) ELSE 0
    IN  [percentage |-> percentage,
         filled |-> Max(0, filled_width),
         empty |-> Max(0, BarWidth - filled_width),
         success |-> (c = t),
         pct_shown |-> show_percentage,
         time_field |-> IF show_eta /\ c > 0
                        THEN (IF c < t THEN "ETA" ELSE "Done")
                        ELSE "none",
         cur |-> c, tot |-> t]

\* an update that does not clamp at total
update_current_unclamped(c, amount, t) == c + amount

\* self.current = min(self.current + amount, self.total)
update_current(c, amount, t) == Min(c + amount, t)

\* a throttle that also holds back an update exactly 0.05 s after the last
throttled_inclusive(c, t) == now - last_update <= Throttle /\ c < t

\* current_time - self.last_update < 0.05 and self.current < self.total
throttled(c, t) == now - last_update < Throttle /\ c < t

\* a set_progress without the lower clamp
set_current_unfloored(v, t) == Min(v, t)

\* self.current = min(max(0, current), self.total)
set_current(v, t) == Min(Max(0, v), t)

\* ProgressBar.update(amount)
update(amount) ==
    /\ UNCHANGED <<svars, mvars, xvars, fvars, gvars>>
    /\ calls < MaxCalls
    /\ calls' = calls + 1
    /\ LET c == update_current(current, amount, total) IN
        /\ current' = c
        /\ IF throttled(c, total)
           THEN /\ UNCHANGED <<last_update, out, renders, painted>>
                /\ pev' = [op |-> "update", arg |-> amount, prev |-> current,
                           rendered |-> FALSE, failed |-> FALSE, at |-> now]
           ELSE /\ last_update' = now
                /\ painted' = IF render_fails(c, total) THEN painted ELSE now
                /\ out' = IF render_fails(c, total) THEN out
                          ELSE render_line(c, total)
                /\ renders' = IF render_fails(c, total) THEN renders
                              ELSE renders + 1
                /\ pev' = [op |-> "update", arg |-> amount, prev |-> current,
                           rendered |-> ~render_fails(c, total),
                           failed |-> render_fails(c, total), at |-> now]
    /\ UNCHANGED <<total, show_percentage, show_eta, start_time, now, newlines,
                   pscope>>

\* ProgressBar.set_progress(current)
set_progress(v) ==
    /\ UNCHANGED <<svars, mvars, xvars, fvars, gvars>>
    /\ calls < MaxCalls
    /\ LET c == set_current(v, total) IN
        /\ current' = c
        /\ out' = IF render_fails(c, total) THEN out ELSE render_line(c, total)
        /\ renders' = IF render_fails(c, total) THEN renders ELSE renders + 1
        /\ painted' = IF render_fails(c, total) THEN painted ELSE now
        /\ pev' = [op |-> "set_progress", arg |-> v, prev |-> current,
                   rendered |-> ~render_fails(c, total),
                   failed |-> render_fails(c, total), at |-> now]
    /\ calls' = calls + 1
    /\ UNCHANGED <<total, show_percentage, show_eta, start_time, last_update,
                   now, newlines, pscope>>

\* a finish() that sets current and writes nothing
finish_call_silent ==
    /\ UNCHANGED <<svars, mvars, xvars, fvars, gvars>>
    /\ current' = total
    /\ calls' = calls + 1
    /\ pev' = [op |-> "finish", arg |-> 0, prev |-> current,
               rendered |-> FALSE, failed |-> FALSE, at |-> now]
    /\ UNCHANGED <<total, show_percentage, show_eta, start_time, last_update,
                   now, out, renders, painted, newlines>>

\* ProgressBar.finish(): self.current = self.total; self._render(); print()
finish_call ==
    /\ UNCHANGED <<svars, mvars, xvars, fvars, gvars>>
    /\ current' = total
    /\ out' = IF render_fails(total, total) THEN out
              ELSE render_line(total, total)
    /\ renders' = IF render_fails(total, total) THEN renders ELSE renders + 1
    /\ painted' = IF render_fails(total, total) THEN painted ELSE now
    /\ newlines' = IF render_fails(total, total) THEN newlines
                   ELSE newlines + 1
    /\ calls' = calls + 1
    /\ pev' = [op |-> "finish", arg |-> 0, prev |-> current,
               rendered |-> ~render_fails(total, total),
               failed |-> render_fails(total, total), at |-> now]
    /\ UNCHANGED <<total, show_percentage, show_eta, start_time, last_update, now>>

\* finish() called by the program on a bar it holds
finish ==
    /\ calls < MaxCalls
    /\ finish_call
    /\ UNCHANGED pscope

\* the clock advances between two calls
tick(d) ==
    /\ UNCHANGED <<svars, mvars, xvars, fvars, gvars>>
    /\ now + d <= MaxTime
    /\ now' = now + d
    /\ UNCHANGED <<total, current, show_percentage, show_eta, start_time,
                   last_update, painted, out, renders, newlines, calls, pev,
                   pscope>>

\* ProgressBar.__init__ with total t, at time 0
ProgressBarInit(t, sp, se) ==
    /\ total = t
    /\ show_percentage = sp
    /\ show_eta = se
    /\ current = 0
    /\ now = 0
    /\ start_time = 0
    /\ last_update = 0
    /\ painted = 0
    /\ out = NoLine
    /\ renders = 0
    /\ newlines = 0
    /\ calls = 0
    /\ pev = NoPev
    /\ pscope = NoScope

\* the loop of data_processing_simulation: one pbar.update(1) per item, here
\* with at least 0.05 s of work since the previous call (or construction)
paced_update ==
    /\ calls < total
    /\ now - pev.at >= Throttle
    /\ update(1)

\* the exceptions a with-body raises: an error of the program, or the
\* SystemExit of the signal handler's sys.exit(0)
BodyExceptions == {"Error", "SystemExit"}

\* the exception that leaves a try/finally whose finally clause ended
\* normally: the one the try body raised
propagated_swallowed(body_exc, finally_exc) == "none"

propagated(body_exc, finally_exc) ==
    IF finally_exc # "none" THEN finally_exc ELSE body_exc

\* TerminalUI.progress up to its yield: pbar = ProgressBar(...); yield pbar
progress_enter ==
    /\ pscope.pc = "none"
    /\ pscope' = [pscope EXCEPT !.pc = "body"]
    /\ UNCHANGED <<total, current, show_percentage, show_eta, start_time,
                   last_update, painted, now, out, renders, newlines, calls,
                   pev>>
    /\ UNCHANGED <<svars, mvars, xvars, fvars, gvars>>

\* the body of the with statement ends without an exception
progress_body_return ==
    /\ pscope.pc = "body"
    /\ pscope' = [pscope EXCEPT !.pc = "finally"]
    /\ UNCHANGED <<total, current, show_percentage, show_eta, start_time,
                   last_update, painted, now, out, renders, newlines, calls,
                   pev>>
    /\ UNCHANGED <<svars, mvars, xvars, fvars, gvars>>

\* the body of the with statement raises e, thrown into the generator at
\* its yield
progress_body_raise(e) ==
    /\ pscope.pc = "body"
    /\ pscope' = [pscope EXCEPT !.pc = "finally", !.exc = e]
    /\ UNCHANGED <<total, current, show_percentage, show_eta, start_time,
                   last_update, painted, now, out, renders, newlines, calls,
                   pev>>
    /\ UNCHANGED <<svars, mvars, xvars, fvars, gvars>>

\* finally: pbar.finish(), then the generator ends and the exception of the
\* body (or of finish, had _render failed) goes on to the caller
progress_exit ==
    /\ pscope.pc = "finally"
    /\ finish_call
    /\ pscope' = [pscope EXCEPT
                     !.pc = "left",
                     !.finishes = @ + 1,
                     !.raising = propagated(pscope.exc,
                                     IF render_fails(total, total)
                                     THEN "ZeroDivisionError" ELSE "none")]

\* a signal delivered while the finally clause runs, before pbar.finish()
\* is called: the handler's sys.exit(0) replaces whatever was propagating
progress_interrupt ==
    /\ pscope.pc = "finally"
    /\ pscope' = [pscope EXCEPT !.pc = "left", !.raising = "SystemExit",
                                !.intr = TRUE]
    /\ UNCHANGED <<total, current, show_percentage, show_eta, start_time,
                   last_update, painted, now, out, renders, newlines, calls,
                   pev>>
    /\ UNCHANGED <<svars, mvars, xvars, fvars, gvars>>

PNext ==
    \/ \E amount \in -1..MaxAmount : update(amount)
    \/ \E v \in -1..(MaxTotal + 1) : set_progress(v)
    \/ finish
    \/ \E d \in 1..Throttle : now + d <= MaxClock /\ tick(d)

(***************************************************************************)
(* MultiProgress and ManagedProgressBar                                    *)
(***************************************************************************)
Names == 1..NBars
Callers == 1..NCallers

\* some caller is inside the repaint of render_all
InsideRender == \E u \in Callers : mpc[u] \in {"clear", "paint"}

NoMev == [name |-> 0, rendered |-> FALSE, registered |-> FALSE,
          inside |-> FALSE]

\* a lock that lets every caller in
lock_free_always == TRUE

\* `with self.lock:` enters only when no caller holds the lock
lock_free == lock = 0

\* self.progress_bars.values() in reverse order
values_reversed(names) == [i \in 1..Len(names) |-> names[Len(names) + 1 - i]]

\* self.progress_bars.values(): a dict iterates in insertion order
values(names) == names

\* self.progress_bars[name] = pbar: a new key goes last, a key already
\* present keeps its place
dict_set(names, n) == IF InList(names, n) THEN names ELSE Append(names, n)

\* a caller calls add_progress(name, ...) and reaches `with self.lock:`
add_progress(t, n) ==
    /\ UNCHANGED <<svars, pvars, xvars, fvars, gvars>>
    /\ mpc[t] = "idle"
    /\ mcalls < MaxMCalls
    /\ mpc' = [mpc EXCEPT ![t] = "add_wait"]
    /\ marg' = [marg EXCEPT ![t] = n]
    /\ mcalls' = mcalls + 1
    /\ UNCHANGED <<progress_bars, bars, bcurrent, lock, mi, mk, trace,
                   prev_painted, mev>>

\* add_progress acquires the lock
add_enter(t) ==
    /\ UNCHANGED <<svars, pvars, xvars, fvars, gvars>>
    /\ mpc[t] = "add_wait"
    /\ lock_free
    /\ lock' = t
    /\ mpc' = [mpc EXCEPT ![t] = "add"]
    /\ UNCHANGED <<progress_bars, bars, bcurrent, marg, mi, mk, trace,
                   prev_painted, mcalls, mev>>

\* add_progress constructs the bar, stores it, releases the lock and returns
add_store(t) ==
    /\ UNCHANGED <<svars, pvars, xvars, fvars, gvars>>
    /\ mpc[t] = "add"
    /\ progress_bars' = dict_set(progress_bars, marg[t])
    /\ bars' = bars \cup {marg[t]}
    /\ bcurrent' = [bcurrent EXCEPT ![marg[t]] = 0]
    /\ lock' = 0
    /\ mpc' = [mpc EXCEPT ![t] = "idle"]
    /\ marg' = [marg EXCEPT ![t] = 0]
    /\ UNCHANGED <<mi, mk, trace, prev_painted, mcalls, mev>>

\* a caller calls remove_progress(name) and reaches `with self.lock:`
remove_progress(t, n) ==
    /\ UNCHANGED <<svars, pvars, xvars, fvars, gvars>>
    /\ mpc[t] = "idle"
    /\ mcalls < MaxMCalls
    /\ mpc' = [mpc EXCEPT ![t] = "remove_wait"]
    /\ marg' = [marg EXCEPT ![t] = n]
    /\ mcalls' = mcalls + 1
    /\ UNCHANGED <<progress_bars, bars, bcurrent, lock, mi, mk, trace,
                   prev_painted, mev>>

\* remove_progress acquires the lock
remove_enter(t) ==
    /\ UNCHANGED <<svars, pvars, xvars, fvars, gvars>>
    /\ mpc[t] = "remove_wait"
    /\ lock_free
    /\ lock' = t
    /\ mpc' = [mpc EXCEPT ![t] = "remove"]
    /\ UNCHANGED <<progress_bars, bars, bcurrent, marg, mi, mk, trace,
                   prev_painted, mcalls, mev>>

\* remove_progress deletes the name if present, releases the lock, returns
remove_delete(t) ==
    /\ UNCHANGED <<svars, pvars, xvars, fvars, gvars>>
    /\ mpc[t] = "remove"
    /\ progress_bars' = RemoveFirst(progress_bars, marg[t])
    /\ lock' = 0
    /\ mpc' = [mpc EXCEPT ![t] = "idle"]
    /\ marg' = [marg EXCEPT ![t] = 0]
    /\ UNCHANGED <<bars, bcurrent, mi, mk, trace, prev_painted, mcalls, mev>>

\* a caller calls render_all() and reaches `with self.lock:`
render_all(t) ==
    /\ UNCHANGED <<svars, pvars, xvars, fvars, gvars>>
    /\ mpc[t] = "idle"
    /\ mcalls < MaxMCalls
    /\ mpc' = [mpc EXCEPT ![t] = "render_wait"]
    /\ mcalls' = mcalls + 1
    /\ UNCHANGED <<progress_bars, bars, bcurrent, lock, marg, mi, mk, trace,
                   prev_painted, mev>>

\* render_all acquires the lock and evaluates range(len(self.progress_bars))
render_enter(t) ==
    /\ UNCHANGED <<svars, pvars, xvars, fvars, gvars>>
    /\ mpc[t] = "render_wait"
    /\ lock_free
    /\ lock' = t
    /\ mk' = [mk EXCEPT ![t] = Len(progress_bars)]
    /\ mi' = [mi EXCEPT ![t] = 0]
    /\ trace' = <<>>
    /\ mpc' = [mpc EXCEPT ![t] = "clear"]
    /\ UNCHANGED <<progress_bars, bars, bcurrent, marg, prev_painted, mcalls,
                   mev>>

\* one iteration of the first loop: move_up(1); clear_line()
render_clear(t) ==
    /\ UNCHANGED <<svars, pvars, xvars, fvars, gvars>>
    /\ mpc[t] = "clear"
    /\ mi[t] < mk[t]
    /\ trace' = Append(trace, [op |-> "up_clear", name |-> 0])
    /\ mi' = [mi EXCEPT ![t] = mi[t] + 1]
    /\ UNCHANGED <<progress_bars, bars, bcurrent, lock, mpc, marg, mk,
                   prev_painted, mcalls, mev>>

\* the first loop is over, the second starts
render_cleared(t) ==
    /\ UNCHANGED <<svars, pvars, xvars, fvars, gvars>>
    /\ mpc[t] = "clear"
    /\ mi[t] >= mk[t]
    /\ mi' = [mi EXCEPT ![t] = 0]
    /\ mpc' = [mpc EXCEPT ![t] = "paint"]
    /\ UNCHANGED <<progress_bars, bars, bcurrent, lock, marg, mk, trace,
                   prev_painted, mcalls, mev>>

\* one iteration of the second loop: pbar._render(); print()
render_paint(t) ==
    /\ UNCHANGED <<svars, pvars, xvars, fvars, gvars>>
    /\ mpc[t] = "paint"
    /\ mi[t] < Len(progress_bars)
    /\ trace' = trace \o <<[op |-> "render",
                            name |-> values(progress_bars)[mi[t] + 1]],
                           [op |-> "newline", name |-> 0]>>
    /\ mi' = [mi EXCEPT ![t] = mi[t] + 1]
    /\ UNCHANGED <<progress_bars, bars, bcurrent, lock, mpc, marg, mk,
                   prev_painted, mcalls, mev>>

\* the second loop is over: render_all releases the lock and returns
render_return(t) ==
    /\ UNCHANGED <<svars, pvars, xvars, fvars, gvars>>
    /\ mpc[t] = "paint"
    /\ mi[t] >= Len(progress_bars)
    /\ prev_painted' = mi[t]
    /\ lock' = 0
    /\ mpc' = [mpc EXCEPT ![t] = "idle"]
    /\ mi' = [mi EXCEPT ![t] = 0]
    /\ mk' = [mk EXCEPT ![t] = 0]
    /\ trace' = <<>>
    /\ UNCHANGED <<progress_bars, bars, bcurrent, marg, mcalls, mev>>

\* what a direct call on the bar named n leaves: its current, and whether
\* it painted the bar's line
bar_call(t, n, c, rendered) ==
    /\ UNCHANGED <<svars, pvars, xvars, fvars, gvars>>
    /\ mpc[t] = "idle"
    /\ mcalls < MaxMCalls
    /\ mcalls' = mcalls + 1
    /\ bcurrent' = [bcurrent EXCEPT ![n] = c]
    /\ mev' = [name |-> n, rendered |-> rendered,
               registered |-> InList(progress_bars, n),
               inside |-> InsideRender]
    /\ UNCHANGED <<progress_bars, bars, lock, mpc, marg, mi, mk, trace,
                   prev_painted>>

\* ManagedProgressBar.update(1) by caller t; soon tells whether less than
\* 0.05 s has elapsed since the bar's last_update
bar_update(t, n, soon) ==
    /\ n \in bars
    /\ LET c == Min(bcurrent[n] + 1, MTotal)
       IN  bar_call(t, n, c, ~(soon /\ c < MTotal))

\* ManagedProgressBar.set_progress(v) by caller t
bar_set_progress(t, n, v) ==
    /\ n \in bars
    /\ bar_call(t, n, Min(Max(0, v), MTotal), TRUE)

\* ManagedProgressBar.finish() by caller t
bar_finish(t, n) ==
    /\ n \in bars
    /\ bar_call(t, n, MTotal, TRUE)

MultiProgressInit ==
    /\ progress_bars = <<>>
    /\ bars = {}
    /\ bcurrent = [n \in Names |-> 0]
    /\ lock = 0
    /\ mpc = [t \in Callers |-> "idle"]
    /\ marg = [t \in Callers |-> 0]
    /\ mi = [t \in Callers |-> 0]
    /\ mk = [t \in Callers |-> 0]
    /\ trace = <<>>
    /\ prev_painted = 0
    /\ mcalls = 0
    /\ mev = NoMev

MNext ==
    \/ \E t \in Callers : \E n \in Names : add_progress(t, n)
    \/ \E t \in Callers : add_enter(t)
    \/ \E t \in Callers : add_store(t)
    \/ \E t \in Callers : \E n \in Names : remove_progress(t, n)
    \/ \E t \in Callers : remove_enter(t)
    \/ \E t \in Callers : remove_delete(t)
    \/ \E t \in Callers : render_all(t)
    \/ \E t \in Callers : render_enter(t)
    \/ \E t \in Callers : render_clear(t)
    \/ \E t \in Callers : render_cleared(t)
    \/ \E t \in Callers : render_paint(t)
    \/ \E t \in Callers : render_return(t)
    \/ \E t \in Callers : \E n \in Names : \E soon \in BOOLEAN :
          bar_update(t, n, soon)
    \/ \E t \in Callers : \E n \in Names : \E v \in 0..MTotal :
          bar_set_progress(t, n, v)
    \/ \E t \in Callers : \E n \in Names : bar_finish(t, n)

(***************************************************************************)
(* MatrixRain and FireEffect                                               *)
(***************************************************************************)
\* TerminalUI.hide_cursor: writes the hide sequence unless self.debug
hide_cursor(debug, visible) == IF debug THEN visible ELSE FALSE

\* TerminalUI.show_cursor: always writes the show sequence
show_cursor(visible) == TRUE

\* the screen columns and rows of MatrixRain; positions are counted in
\* half rows, speeds in half rows per iteration
Xs == 1..RainWidth
Rows == 0..(RainHeight - 1)
Speeds == 1..MaxSpeed
NoColumn == [y |-> 0, speed |-> 0]

\* a draw that also succeeds when random.random() returns exactly density
spawns_inclusive(density) ==
    IF density < 0 THEN {FALSE} ELSE IF density >= 100 THEN {TRUE} ELSE BOOLEAN

\* the outcomes of `random.random() < self.density`, random() in [0, 1)
spawns(density) ==
    IF density <= 0 THEN {FALSE} ELSE IF density >= 100 THEN {TRUE} ELSE BOOLEAN

\* the columns run() may create at a position: 'y' = randint(0, height),
\* 'speed' drawn at random, or None
initial_columns(density) ==
    (IF TRUE \in spawns(density)
     THEN {[y |-> 2 * r, speed |-> v] : r \in 0..RainHeight, v \in Speeds}
     ELSE {})
    \cup (IF FALSE \in spawns(density) THEN {NoColumn} ELSE {})

\* the columns a reset may put at a position: 'y' = -randint(5, 15) (the
\* two ends of the range), 'speed' drawn at random, or None
fresh_columns(density) ==
    (IF TRUE \in spawns(density)
     THEN {[y |-> -2 * r, speed |-> v] : r \in {RespawnMin, RespawnMax},
                                        v \in Speeds}
     ELSE {})
    \cup (IF FALSE \in spawns(density) THEN {NoColumn} ELSE {})

\* column['y'] += column['speed'] / speed_factor
advanced(c) == [c EXCEPT !.y = c.y + c.speed]

\* the rows where the loop writes a glyph of a column at position y:
\* char_y = int(column['y'] - y), written if 0 <= char_y < len(chars)
painted_rows(y) ==
    {row \in Rows : TruncDiv(y - 2 * row, 2) \in 0..(RainHeight - 1)}

\* a reset as soon as the position has passed the bottom of the screen
off_screen_early(c) == c.y > 2 * RainHeight

\* column['y'] > height + len(column['chars'])
off_screen(c) == c.y > 2 * (RainHeight + RainHeight)

\* what one loop iteration may leave at a position holding column c
column_step(c, density) ==
    IF c = NoColumn THEN {NoColumn}
    ELSE IF off_screen(advanced(c)) THEN fresh_columns(density)
    ELSE {advanced(c)}

\* the glyphs one loop iteration writes for the column c
column_glyphs(c) ==
    IF c = NoColumn THEN 0 ELSE Cardinality(painted_rows(advanced(c).y))

RECURSIVE Sum(_, _)
Sum(f, S) ==
    IF S = {} THEN 0
    ELSE LET x == CHOOSE x \in S : TRUE IN f[x] + Sum(f, S \ {x})

\* MatrixRain.run() up to its try statement: the columns are drawn at
\* random, then self.ui.hide_cursor()
matrix_run ==
    /\ UNCHANGED <<svars, pvars, mvars, fvars, gvars>>
    /\ epc = "idle"
    /\ ekind' = "matrix"
    /\ columns' \in [Xs -> initial_columns(edensity)]
    /\ ecursor' = hide_cursor(edebug, ecursor)
    /\ epc' = "loop"
    /\ UNCHANGED <<edebug, escreen, eexc, eframes, edensity, epainted, fire,
                   fy, fx>>

\* the rows and columns of FireEffect's buffer, row FireHeight - 1 being
\* the bottom row
FRows == 0..(FireHeight - 1)
FCols == 0..(FireWidth - 1)

\* fire = [[0 ...] ...]; fire[self.height-1][x] = len(self.fire_chars) - 1
initial_fire ==
    [y \in FRows |-> [x \in FCols |->
        IF y = FireHeight - 1 THEN MaxHeat ELSE 0]]

\* 0 <= ny < self.height and 0 <= nx < self.width
in_bounds(ny, nx) == 0 <= ny /\ ny < FireHeight /\ 0 <= nx /\ nx < FireWidth

\* the loops over dy and dx in [-1, 0, 1], from the k-th of the nine
\* offsets on: heat += fire[ny][nx]; count += 1 for the cells in bounds
RECURSIVE sample(_, _, _, _)
sample(f, y, x, k) ==
    IF k > 9 THEN [heat |-> 0, count |-> 0]
    ELSE LET ny == y + ((k - 1) \div 3) - 1
             nx == x + ((k - 1) % 3) - 1
             rest == sample(f, y, x, k + 1)
         IN  IF in_bounds(ny, nx)
             THEN [heat |-> f[ny][nx] + rest.heat, count |-> 1 + rest.count]
             ELSE rest

\* a cooling that is not clamped at 0
cooled_unclamped(heat, count, c) == (heat \div count) - c

\* max(0, (heat // count) - random.randint(0, 2)) for the draw c
cooled(heat, count, c) == Max(0, (heat \div count) - c)

\* FireEffect.run() up to its try statement: the heat buffer is filled; the
\* cursor is not touched
fire_run ==
    /\ UNCHANGED <<svars, pvars, mvars, fvars, gvars>>
    /\ epc = "idle"
    /\ ekind' = "fire"
    /\ fire' = initial_fire
    /\ epc' = "loop"
    /\ UNCHANGED <<edebug, ecursor, escreen, eexc, eframes, edensity, columns,
                   epainted, fy, fx>>

\* one iteration of MatrixRain's loop: clear the screen, then advance,
\* draw and possibly reset every column that is not None
matrix_frame ==
    /\ UNCHANGED <<svars, pvars, mvars, fvars, gvars>>
    /\ epc = "loop"
    /\ ekind = "matrix"
    /\ eframes < MaxFrames
    /\ escreen' = "frame"
    /\ eframes' = eframes + 1
    /\ epainted' = Sum([x \in Xs |-> column_glyphs(columns[x])], Xs)
    /\ columns' \in
          {nc \in [Xs -> UNION {column_step(columns[x], edensity) : x \in Xs}] :
              \A x \in Xs : nc[x] \in column_step(columns[x], edensity)}
    /\ UNCHANGED <<ekind, epc, edebug, ecursor, eexc, edensity, fire, fy, fx>>

\* one iteration of FireEffect's loop taken as a whole, the content of the
\* heat buffer left aside: update the heat, draw the buffer
fire_frame ==
    /\ UNCHANGED <<svars, pvars, mvars, fvars, gvars>>
    /\ epc = "loop"
    /\ ekind = "fire"
    /\ eframes < MaxFrames
    /\ escreen' = "frame"
    /\ eframes' = eframes + 1
    /\ UNCHANGED <<ekind, epc, edebug, ecursor, eexc, edensity, columns,
                   epainted, fire, fy, fx>>

\* the loop condition of FireEffect is true: the update loops start (with
\* a single row there is no cell to update)
fire_enter ==
    /\ UNCHANGED <<svars, pvars, mvars, fvars, gvars>>
    /\ epc = "loop"
    /\ ekind = "fire"
    /\ eframes < MaxFrames
    /\ epc' = IF FireHeight > 1 THEN "cells" ELSE "render"
    /\ fy' = 0
    /\ fx' = 0
    /\ UNCHANGED <<ekind, edebug, ecursor, escreen, eexc, eframes, edensity,
                   columns, epainted, fire>>

\* the body of the update loops for the cell (fy, fx): the new heat is
\* stored in the buffer the following cells sample
fire_cell ==
    /\ UNCHANGED <<svars, pvars, mvars, fvars, gvars>>
    /\ epc = "cells"
    /\ \E c \in 0..MaxCooling :
          LET s == sample(fire, fy, fx, 1)
          IN  fire' = [fire EXCEPT ![fy][fx] = cooled(s.heat, s.count, c)]
    /\ fx' = IF fx + 1 < FireWidth THEN fx + 1 ELSE 0
    /\ fy' = IF fx + 1 < FireWidth THEN fy ELSE fy + 1
    /\ epc' = IF fx + 1 < FireWidth \/ fy + 1 < FireHeight - 1
              THEN "cells" ELSE "render"
    /\ UNCHANGED <<ekind, edebug, ecursor, escreen, eexc, eframes, edensity,
                   columns, epainted>>

\* the buffer is drawn, then time.sleep(...)
fire_render ==
    /\ UNCHANGED <<svars, pvars, mvars, fvars, gvars>>
    /\ epc = "render"
    /\ escreen' = "frame"
    /\ eframes' = eframes + 1
    /\ epc' = "loop"
    /\ UNCHANGED <<ekind, edebug, ecursor, eexc, edensity, columns, epainted,
                   fire, fy, fx>>

\* the loop condition is false: the duration has elapsed
effect_elapsed ==
    /\ UNCHANGED <<svars, pvars, mvars, fvars, gvars>>
    /\ epc = "loop"
    /\ epc' = "finally"
    /\ UNCHANGED <<ekind, edebug, ecursor, escreen, eexc, eframes, edensity,
                   columns, epainted, fire, fy, fx>>

\* an exception is raised inside the loop (KeyboardInterrupt, or the
\* SystemExit of the signal handler)
effect_interrupt ==
    /\ UNCHANGED <<svars, pvars, mvars, fvars, gvars>>
    /\ epc = "loop"
    /\ eexc' = "Interrupt"
    /\ epc' = "finally"
    /\ UNCHANGED <<ekind, edebug, ecursor, escreen, eframes, edensity, columns,
                   epainted, fire, fy, fx>>

\* the finally clause of run(): MatrixRain shows the cursor and clears the
\* screen, FireEffect only clears the screen
finally_clause(kind, visible, screen) ==
    IF kind = "matrix"
    THEN [cursor |-> show_cursor(visible), screen |-> "cleared"]
    ELSE [cursor |-> visible, screen |-> "cleared"]

\* run() executes its finally clause, then returns or lets the exception on
effect_finally ==
    /\ UNCHANGED <<svars, pvars, mvars, fvars, gvars>>
    /\ epc = "finally"
    /\ ecursor' = finally_clause(ekind, ecursor, escreen).cursor
    /\ escreen' = finally_clause(ekind, ecursor, escreen).screen
    /\ epc' = IF eexc = "none" THEN "returned" ELSE "raised"
    /\ UNCHANGED <<ekind, edebug, eexc, eframes, edensity, columns, epainted,
                   fire, fy, fx>>

Densities == {0, 10, 100}
EffectInit(debug, visible, density) ==
    /\ edensity = density
    /\ columns = [x \in Xs |-> NoColumn]
    /\ epainted = 0
    /\ fire = [y \in FRows |-> [x \in FCols |-> 0]]
    /\ fy = 0
    /\ fx = 0
    /\ ekind = "none"
    /\ epc = "idle"
    /\ edebug = debug
    /\ ecursor = visible
    /\ escreen = "text"
    /\ eexc = "none"
    /\ eframes = 0

XNext ==
    \/ matrix_run
    \/ fire_run
    \/ matrix_frame
    \/ fire_frame
    \/ effect_elapsed
    \/ effect_interrupt
    \/ effect_finally

(***************************************************************************)
(* TerminalUI instances, their _active_spinners lists and the signal       *)
(* handler, with ui.spinner blocks running on other threads                *)
(***************************************************************************)
UIs == 1..NUIs
Blocks == 1..NBlocks

\* the elements of a list, and a list without the first occurrence of x
Elems(l) == {l[i] : i \in 1..Len(l)}
RECURSIVE list_remove(_, _)
list_remove(l, x) ==
    IF l = <<>> THEN <<>>
    ELSE IF Head(l) = x THEN Tail(l)
    ELSE <<Head(l)>> \o list_remove(Tail(l), x)

\* the main thread is not inside the signal handler
MainFree == gpc = "none"

\* TerminalUI.__init__: self._active_spinners = [] and
\* self._setup_signal_handlers(), which installs a handler bound to self
ui_create ==
    /\ UNCHANGED <<svars, pvars, mvars, xvars, fvars>>
    /\ MainFree
    /\ created < NUIs
    /\ created' = created + 1
    /\ handler' = created + 1
    /\ UNCHANGED <<lists, bui, bpc, brunning, gpc, gu, gi, gcur, gstopped,
                   gkept, gran, gcursor, gfailed>>

\* a thread enters `with u.spinner(...)`: the Spinner is constructed and
\* appended to u._active_spinners
block_enter(b, u) ==
    /\ UNCHANGED <<svars, pvars, mvars, xvars, fvars>>
    /\ gpc # "exited"
    /\ u <= created
    /\ bpc[b] = "new"
    /\ lists' = [lists EXCEPT ![u] = Append(@, b)]
    /\ bui' = [bui EXCEPT ![b] = u]
    /\ bpc' = [bpc EXCEPT ![b] = "entered"]
    /\ UNCHANGED <<created, handler, brunning, gpc, gu, gi, gcur, gstopped,
                   gkept, gran, gcursor, gfailed>>

\* spinner_obj.start(), then the body of the block runs
block_start(b) ==
    /\ UNCHANGED <<svars, pvars, mvars, xvars, fvars>>
    /\ gpc # "exited"
    /\ bpc[b] = "entered"
    /\ brunning' = [brunning EXCEPT ![b] = TRUE]
    /\ gcursor' = FALSE
    /\ bpc' = [bpc EXCEPT ![b] = "body"]
    /\ UNCHANGED <<created, handler, lists, bui, gpc, gu, gi, gcur, gstopped,
                   gkept, gran, gfailed>>

\* the body ends (or raises): spinner_obj.stop() in the finally clause
block_stop(b) ==
    /\ UNCHANGED <<svars, pvars, mvars, xvars, fvars>>
    /\ gpc # "exited"
    /\ bpc[b] = "body"
    /\ brunning' = [brunning EXCEPT ![b] = FALSE]
    /\ gcursor' = IF brunning[b] THEN TRUE ELSE gcursor
    /\ bpc' = [bpc EXCEPT ![b] = "stopped"]
    /\ UNCHANGED <<created, handler, lists, bui, gpc, gu, gi, gcur, gstopped,
                   gkept, gran, gfailed>>

\* self._active_spinners.remove(spinner_obj): ValueError if it is absent
block_remove(b) ==
    /\ UNCHANGED <<svars, pvars, mvars, xvars, fvars>>
    /\ gpc # "exited"
    /\ bpc[b] = "stopped"
    /\ lists' = [lists EXCEPT ![bui[b]] = list_remove(@, b)]
    /\ gfailed' = (gfailed \/ b \notin Elems(lists[bui[b]]))
    /\ gkept' = gkept \ {b}
    /\ bpc' = [bpc EXCEPT ![b] = "left"]
    /\ UNCHANGED <<created, handler, bui, brunning, gpc, gu, gi, gcur,
                   gstopped, gran, gcursor>>

\* SIGINT or SIGTERM is delivered: the installed signal_handler starts on
\* the main thread and calls self._cleanup() of the instance it is bound to
guard_signal ==
    /\ UNCHANGED <<svars, pvars, mvars, xvars, fvars>>
    /\ MainFree
    /\ handler # 0
    /\ gu' = handler
    /\ gi' = 0
    /\ gkept' = UNION {Elems(lists[u]) : u \in UIs}
    /\ gran' = {b \in Blocks : brunning[b]}
    /\ gpc' = "iter"
    /\ UNCHANGED <<created, handler, lists, bui, bpc, brunning, gcur,
                   gstopped, gcursor, gfailed>>

\* one step of `for spinner in self._active_spinners`: the list iterator
\* returns the element at its index and advances, or ends the loop when
\* the index has reached the present length of the list
guard_next ==
    /\ UNCHANGED <<svars, pvars, mvars, xvars, fvars>>
    /\ gpc = "iter"
    /\ IF gi < Len(lists[gu])
       THEN /\ gcur' = lists[gu][gi + 1]
            /\ gi' = gi + 1
            /\ gpc' = "stop"
       ELSE /\ gpc' = "show"
            /\ UNCHANGED <<gcur, gi>>
    /\ UNCHANGED <<created, handler, lists, bui, bpc, brunning, gu, gstopped,
                   gkept, gran, gcursor, gfailed>>

\* spinner._stop() called by _cleanup
guard_stop ==
    /\ UNCHANGED <<svars, pvars, mvars, xvars, fvars>>
    /\ gpc = "stop"
    /\ brunning' = [brunning EXCEPT ![gcur] = FALSE]
    /\ gcursor' = IF brunning[gcur] THEN TRUE ELSE gcursor
    /\ gstopped' = gstopped \cup {gcur}
    /\ gpc' = "iter"
    /\ UNCHANGED <<created, handler, lists, bui, bpc, gu, gi, gcur, gkept,
                   gran, gfailed>>

\* self.show_cursor() at the end of _cleanup
guard_show ==
    /\ UNCHANGED <<svars, pvars, mvars, xvars, fvars>>
    /\ gpc = "show"
    /\ gcursor' = TRUE
    /\ gpc' = "exit"
    /\ UNCHANGED <<created, handler, lists, bui, bpc, brunning, gu, gi, gcur,
                   gstopped, gkept, gran, gfailed>>

\* sys.exit(0) in signal_handler
guard_exit ==
    /\ UNCHANGED <<svars, pvars, mvars, xvars, fvars>>
    /\ gpc = "exit"
    /\ gpc' = "exited"
    /\ UNCHANGED <<created, handler, lists, bui, bpc, brunning, gu, gi, gcur,
                   gstopped, gkept, gran, gcursor, gfailed>>

GuardInit ==
    /\ created = 0
    /\ handler = 0
    /\ lists = [u \in UIs |-> <<>>]
    /\ bui = [b \in Blocks |-> 0]
    /\ bpc = [b \in Blocks |-> "new"]
    /\ brunning = [b \in Blocks |-> FALSE]
    /\ gpc = "none"
    /\ gu = 0
    /\ gi = 0
    /\ gcur = 0
    /\ gstopped = {}
    /\ gkept = {}
    /\ gran = {}
    /\ gcursor = TRUE
    /\ gfailed = FALSE

GNext ==
    \/ ui_create
    \/ \E b \in Blocks : \E u \in UIs : block_enter(b, u)
    \/ \E b \in Blocks : block_start(b)
    \/ \E b \in Blocks : block_stop(b)
    \/ \E b \in Blocks : block_remove(b)
    \/ guard_signal
    \/ guard_next
    \/ guard_stop
    \/ guard_show
    \/ guard_exit

\* the parts of the engine a specification leaves untouched
Quiet == MultiProgressInit /\ EffectInit(FALSE, TRUE, 10) /\ GuardInit

(***************************************************************************)
(* Specifications                                                          *)
(***************************************************************************)
\* the whole spinner engine: Spinner API, ui.spinner blocks, signals
Init == SInit /\ ProgressBarInit(0, TRUE, TRUE) /\ Quiet
Next == SNext
Spec == Init /\ [][Next]_vars

\* the Spinner class alone, driven by direct start()/stop() calls; the
\* foreground thread keeps executing the call it is in
SpinnerMain ==
    \/ \E s \in Spinners : SpinnerInit(s)
    \/ \E s \in Spinners : call_start(s)
    \/ start_hide
    \/ start_spawn
    \/ \E s \in Spinners : call_stop(s)
    \/ stop_join
    \/ stop_clear
    \/ stop_show
SpinnerNext == SpinnerMain \/ ThreadStep
SpinnerSpec == Init /\ [][SpinnerNext]_vars /\ WF_vars(SpinnerMain)

OneSpinner == CHOOSE s \in Spinners : TRUE

\* one Spinner with fairly scheduled loop threads: a thread that can take
\* its next step is not held back for ever; the foreground may pause at
\* any point
LoopStep(t) == animate_check(t) \/ animate_clear(t) \/ animate_write(t)
LoopNext ==
    \/ SpinnerInit(OneSpinner)
    \/ call_start(OneSpinner)
    \/ start_hide
    \/ start_spawn
    \/ call_stop(OneSpinner)
    \/ stop_join
    \/ stop_clear
    \/ stop_show
    \/ \E t \in Threads : animate_check(t)
    \/ \E t \in Threads : animate_clear(t)
    \/ \E t \in Threads : animate_write(t)
LoopSpec ==
    Init /\ [][LoopNext]_vars /\ \A t \in Threads : WF_vars(LoopStep(t))

\* a program that creates its spinners only through ui.spinner(...), as
\* every caller in the repository does; it may stop a spinner by hand
ScopedMain ==
    \/ \E s \in Spinners : spinner_enter(s)
    \/ spinner_start
    \/ start_hide
    \/ start_spawn
    \/ body_return
    \/ body_raise
    \/ \E s \in Spinners : call_stop(s)
    \/ spinner_stop
    \/ stop_join
    \/ stop_clear
    \/ stop_show
    \/ spinner_remove
    \/ propagate
    \/ cleanup_iter
    \/ cleanup_show
    \/ handler_exit
ScopedNext ==
    \/ ScopedMain
    \/ ThreadStep
    \/ signals < MaxBlockSignals /\ signal_handler
ScopedSpec == Init /\ [][ScopedNext]_vars

\* one Spinner with a foreground that also calls update_message and
\* update_suffix; the loops record the texts they read
MessageNext ==
    \/ SpinnerInit(OneSpinner)
    \/ call_start(OneSpinner)
    \/ start_hide
    \/ start_spawn
    \/ call_stop(OneSpinner)
    \/ stop_join
    \/ stop_clear
    \/ stop_show
    \/ \E v \in 1..MaxMsgs : update_message(OneSpinner, v)
    \/ \E v \in 1..MaxMsgs : update_suffix(OneSpinner, v)
    \/ \E t \in Threads : animate_check(t)
    \/ \E t \in Threads : animate_clear(t)
    \/ \E t \in Threads : animate_show(t)
MessageSpec == Init /\ [][MessageNext]_vars

\* one Spinner with loops that record the frames they write
FrameNext ==
    \/ SpinnerInit(OneSpinner)
    \/ call_start(OneSpinner)
    \/ start_hide
    \/ start_spawn
    \/ call_stop(OneSpinner)
    \/ stop_join
    \/ stop_clear
    \/ stop_show
    \/ \E t \in Threads : animate_check(t)
    \/ \E t \in Threads : animate_clear(t)
    \/ \E t \in Threads : animate_tick(t)
FrameSpec == Init /\ [][FrameNext]_vars

\* one Spinner whose foreground calls update_message and update_suffix
\* while its loops read the message and the suffix one after the other
PairNext ==
    \/ SpinnerInit(OneSpinner)
    \/ call_start(OneSpinner)
    \/ start_hide
    \/ start_spawn
    \/ call_stop(OneSpinner)
    \/ stop_join
    \/ stop_clear
    \/ stop_show
    \/ \E v \in 1..MaxMsgs : update_message(OneSpinner, v)
    \/ \E v \in 1..MaxMsgs : update_suffix(OneSpinner, v)
    \/ \E t \in Threads : animate_check(t)
    \/ \E t \in Threads : animate_clear(t)
    \/ \E t \in Threads : animate_read_message(t)
    \/ \E t \in Threads : animate_read_suffix(t)
PairSpec == Init /\ [][PairNext]_vars

\* one ProgressBar driven by one thread
ProgressInit ==
    /\ SInit
    /\ Quiet
    /\ \E t \in -1..MaxTotal : \E sp \in BOOLEAN : \E se \in BOOLEAN :
          ProgressBarInit(t, sp, se)
ProgressNext == PNext
ProgressSpec == ProgressInit /\ [][ProgressNext]_vars

\* one ProgressBar with total > 0 that receives total paced update(1) calls
PacedInit ==
    /\ SInit
    /\ Quiet
    /\ \E t \in 1..MaxTotal : \E sp \in BOOLEAN : \E se \in BOOLEAN :
          ProgressBarInit(t, sp, se)
PacedNext ==
    \/ \E d \in 1..Throttle : tick(d)
    \/ paced_update
PacedSpec == PacedInit /\ [][PacedNext]_vars

\* one ProgressBar of any total up to MaxPctTotal whose position is set
\* with set_progress, to examine the percentage _render computes
RenderInit ==
    /\ SInit
    /\ Quiet
    /\ \E t \in 1..MaxPctTotal : ProgressBarInit(t, TRUE, TRUE)
RenderNext == \E v \in 0..MaxPctTotal : set_progress(v)
RenderSpec == RenderInit /\ [][RenderNext]_vars

\* one `with ui.progress(...) as pbar:` block whose body calls the bar
BlockInit ==
    /\ SInit
    /\ Quiet
    /\ \E t \in -1..MaxTotal : ProgressBarInit(t, TRUE, TRUE)
BlockNext ==
    \/ progress_enter
    \/ pscope.pc = "body" /\ \E amount \in -1..MaxAmount : update(amount)
    \/ pscope.pc = "body" /\ finish
    \/ pscope.pc = "body" /\ now + Throttle <= MaxClock /\ tick(Throttle)
    \/ progress_body_return
    \/ \E e \in BodyExceptions : progress_body_raise(e)
    \/ progress_exit
    \/ progress_interrupt
BlockSpec == BlockInit /\ [][BlockNext]_vars

\* one MultiProgress and its bars, called by NCallers threads
MultiInit ==
    /\ SInit
    /\ ProgressBarInit(0, TRUE, TRUE)
    /\ MultiProgressInit
    /\ EffectInit(FALSE, TRUE, 10)
    /\ GuardInit
MultiNext == MNext
MultiSpec == MultiInit /\ [][MultiNext]_vars

\* one run() of a MatrixRain or a FireEffect
EffectsInit ==
    /\ SInit
    /\ ProgressBarInit(0, TRUE, TRUE)
    /\ MultiProgressInit
    /\ GuardInit
    /\ \E debug \in BOOLEAN : \E visible \in BOOLEAN :
          \E density \in Densities : EffectInit(debug, visible, density)
EffectsNext == XNext
EffectsSpec == EffectsInit /\ [][EffectsNext]_vars

\* one run() of a FireEffect, cell by cell
FireNext ==
    \/ fire_run
    \/ fire_enter
    \/ fire_cell
    \/ fire_render
    \/ effect_elapsed
    \/ effect_interrupt
    \/ effect_finally
FireSpec == Init /\ [][FireNext]_vars

\* TerminalUI instances with ui.spinner blocks on other threads, and a
\* signal delivered at any moment
GuardSpec == Init /\ [][GNext]_vars

(***************************************************************************)
(* Claims                                                                  *)
(***************************************************************************)
LoopsOf(s) == {t \in Threads : towner[t] = s /\ is_alive(t)}

Rank(st) ==
    CASE st = "NONE" -> 0
      [] st = "CREATED" -> 1
      [] st = "RUNNING" -> 2
      [] st = "STOPPING" -> 3
      [] st = "STOPPED" -> 4

HandlerDepth == Cardinality({i \in 1..Len(stack) : stack[i].op = "handler"})

C2_LineClearedAfterStop ==
    \A s \in Spinners :
        state[s] = "STOPPED" =>
            /\ line # s
            /\ (\A r \in Spinners : state[r] \notin {"RUNNING", "STOPPING"}) => cursor

\* C3: at most one _animate loop of a spinner is alive at any time.
C3_OneLoopPerSpinner ==
    \A s \in Spinners : Cardinality(LoopsOf(s)) <= 1

\* C4: the lifecycle state of a spinner never moves backward
\* (CREATED -> RUNNING -> STOPPING -> STOPPED); in particular a stopped
\* spinner never becomes RUNNING again.
C4_StateOnlyForward ==
    [][\A s \in Spinners : Rank(state'[s]) >= Rank(state[s])]_vars

\* C5: stop() on a spinner that is not running (already stopped, or never
\* started) returns at once: no join, no clear-line and no show-cursor
\* follow (no _stop frame is left on the stack), and the terminal, the
\* flag, the thread handle and the lifecycle state are unchanged.
C5_StopNoop ==
    [][\A s \in Spinners :
          (call_stop(s) /\ ~running[s]) =>
              UNCHANGED <<stack, line, cursor, state, running, thread, tpc>>]_vars

\* C5 witness: a second stop() on a stopped spinner has returned early
C5_Witness ==
    /\ ev.kind = "stop_noop"
    /\ state[ev.s] = "STOPPED"

\* C6: a stop() that has cleared the running flag always returns (the
\* spinner reaches STOPPED), whatever the background loop does, and no
\* exception is ever raised by it.
C6_StopReturns ==
    /\ \A s \in Spinners : (state[s] = "STOPPING") ~> (state[s] = "STOPPED")
    /\ [](raising = "none")

\* C6 witness: stop() has returned although its loop thread is still alive
\* (the join timed out)
C6_Witness ==
    /\ ev.kind = "stop_ret"
    /\ ev.alive
    /\ state[ev.s] = "STOPPED"
    /\ line = 0
    /\ cursor

\* C7: when the guard has finished _cleanup (it is about to call
\* sys.exit), no spinner of the UI is RUNNING and the cursor is visible.
C7_GuardStopsAll ==
    At("handler", "exit") =>
        /\ \A s \in Spinners : exists[s] => ~running[s]
        /\ cursor

\* C8: the guard's cleanup is never entered while a cleanup is already in
\* progress.
C8_CleanupOnce == HandlerDepth <= 1

\* C9: whenever the program is between two engine calls (at top level or
\* in the body of a with block), _active_spinners holds exactly the
\* spinners that are RUNNING, however they were started.
C9_ActiveIsRunning ==
    CanCall => \A s \in Spinners : InList(active_spinners, s) <=> running[s]

\* C10: for a ProgressBar with total >= 0, current never exceeds total.
C10_CurrentAtMostTotal == total >= 0 => current <= total

\* C10 witness: an update() that would pass total has left current = total
C10_Witness ==
    /\ total > 0
    /\ pev.op = "update"
    /\ pev.prev + pev.arg > total
    /\ current = total

\* C11: for total > 0 a rendered line shows percentage 100 exactly when the
\* rendered current equals total, and otherwise a value in 0..99 equal to
\* floor(100 * current / total).
C11_PercentageIsFloor ==
    (total > 0 /\ out # NoLine) =>
        /\ (out.percentage = 100) <=> (out.cur = total)
        /\ out.cur # total =>
              /\ out.percentage \in 0..99
              /\ out.percentage = (100 * out.cur) \div total

\* C12: for a ProgressBar with total == 0 no operation fails with a
\* division by zero, and every line rendered shows percentage 100 with the
\* same bar: no filled cell and BarWidth empty cells.
C12_ZeroTotalSafe ==
    total = 0 =>
        /\ ~pev.failed
        /\ out # NoLine =>
              /\ out.percentage = 100
              /\ out.filled = 0
              /\ out.empty = BarWidth

\* C12 witness: a bar with total == 0 has been updated, set and finished,
\* each call rendering 100
C12_Witness ==
    /\ total = 0
    /\ renders >= 3
    /\ pev.op = "finish"
    /\ pev.rendered
    /\ out.percentage = 100

\* C13: update(amount) sets current to min(current + amount, total); it
\* returns without rendering exactly when less than the throttle interval
\* has elapsed since the bar was last repainted and current < total after
\* the update, and in every other case it renders exactly once
\* (stated for bars with total >= 0).
C13_UpdateThrottle ==
    [][\A a \in -1..MaxAmount :
          (update(a) /\ total >= 0) =>
              /\ current' = Min(current + a, total)
              /\ IF now - painted < Throttle /\ current' < total
                 THEN renders' = renders
                 ELSE renders' = renders + 1]_vars

\* C14: when a bar with total = N > 0 receives update(1) calls with at
\* least 0.05 s before each, every call renders (renders = calls, N in
\* all), and the line rendered by the N-th call shows 100 as percentage,
\* the count (N/N) and, when the ETA field is enabled, Done in its place.
C14_PacedUpdatesRender ==
    /\ renders = calls
    /\ calls = total =>
          /\ out.cur = total
          /\ out.tot = total
          /\ out.percentage = 100
          /\ out.pct_shown = show_percentage
          /\ show_eta => out.time_field = "Done"

\* C14 witness: a bar with the default fields has received its total >= 2
\* paced updates and shows 100, (N/N) and Done
C14_Witness ==
    /\ total >= 2
    /\ calls = total
    /\ renders = total
    /\ show_percentage
    /\ show_eta
    /\ out.percentage = 100
    /\ out.time_field = "Done"
    /\ out.cur = total

\* C15: finish() is idempotent: a finish() that directly follows a
\* finish() leaves current unchanged, renders no further line and commits
\* no further newline.
C15_FinishIdempotent ==
    [][(finish /\ pev.op = "finish" /\ total >= 0) =>
          /\ current' = current
          /\ renders' = renders
          /\ newlines' = newlines]_vars

\* the move_up + clear_line operations in the trace of a render_all
UpClears == Cardinality({i \in 1..Len(trace) : trace[i].op = "up_clear"})

\* C16: when a render_all() has finished its first loop, it has moved up
\* over and cleared exactly as many lines as the previous render_all()
\* painted (zero when there was none).
C16_ClearsPreviousBlock ==
    \A t \in Callers : mpc[t] = "paint" => UpClears = prev_painted

\* N move_up + clear_line operations, then for each name in order its
\* render followed by a newline
ExpectedBlock(names) ==
    LET N == Len(names)
    IN  [i \in 1..(3 * N) |->
            IF i <= N THEN [op |-> "up_clear", name |-> 0]
            ELSE IF (i - N) % 2 = 1
                 THEN [op |-> "render", name |-> names[(i - N + 1) \div 2]]
                 ELSE [op |-> "newline", name |-> 0]]

\* C17: a render_all() that has completed its loops with N bars
\* registered has performed exactly N move-up + clear operations, all
\* before the first repaint, and then repainted the bars in insertion order,
\* each followed by a newline, whichever bar was updated last.
C17_BlockRepaint ==
    \A t \in Callers :
        (mpc[t] = "paint" /\ mi[t] >= Len(progress_bars)) =>
            trace = ExpectedBlock(progress_bars)

\* C17 witness: two bars registered in the order 2, 1; the bar updated last
\* is bar 1, and a render_all() has repainted bar 2 before bar 1
C17_Witness ==
    /\ progress_bars = <<2, 1>>
    /\ mev.rendered
    /\ mev.name = 1
    /\ \E t \in Callers : mpc[t] = "paint" /\ mi[t] = 2
    /\ Len(trace) = 6
    /\ trace[3].name = 2
    /\ trace[5].name = 1

\* C18: a direct update(), set_progress() or finish() on a bar that is
\* registered with the MultiProgress never renders that bar while another
\* thread is inside the repaint of render_all().
C18_NoDirectRender ==
    (mev.rendered /\ mev.registered) => ~mev.inside

\* the callers inside a `with self.lock:` block
InCritical ==
    {t \in Callers : mpc[t] \in {"add", "remove", "clear", "paint"}}

\* C19: at most one caller is inside add_progress, remove_progress or
\* render_all at a time, and the registry does not change while a
\* render_all() is repainting.
C19_MutualExclusion ==
    /\ [](Cardinality(InCritical) <= 1)
    /\ [][InsideRender => progress_bars' = progress_bars]_vars

\* C19 witness: one caller is repainting inside render_all() while another,
\* which has called add_progress, waits for the lock
C19_Witness ==
    \E t \in Callers : \E u \in Callers :
        /\ mpc[t] = "paint"
        /\ lock = t
        /\ mpc[u] = "add_wait"

\* C20: run() of either effect hides the cursor on entry (the cursor is
\* hidden while run() is in its loop, unless the UI is in debug mode), and
\* whenever run() has returned or has let an interruption propagate, the
\* cursor is shown and the screen is cleared.
C20_EffectCleanup ==
    /\ (epc = "loop" /\ ~edebug) => ~ecursor
    /\ epc \in {"returned", "raised"} => (ecursor /\ escreen = "cleared")


\* C21: no ProgressBar with a negative total is ever constructed and
\* rendered: every line on the terminal belongs to a bar with total >= 0.
C21_NoNegativeTotal == out # NoLine => total >= 0


\* C22: the message and the suffix a loop reads for a frame are each a
\* whole text, one of the values assigned to that field of the spinner (the
\* constructor's or the argument of an update call), never a mix of two.
C22_WholeTexts ==
    shown.s # 0 =>
        /\ shown.message.head = shown.message.tail
        /\ shown.message.head \in assigned[shown.s].message
        /\ shown.suffix.head = shown.suffix.tail
        /\ shown.suffix.head \in assigned[shown.s].suffix

\* C22 witness: the loop of a running spinner has read a message set by
\* update_message together with the constructor's suffix
C22_Witness ==
    /\ shown.s # 0
    /\ running[shown.s]
    /\ shown.message = Str(1)
    /\ shown.suffix = Str(0)
    /\ updates >= 1


\* C23: for a bar with total > 0 every rendered bar has exactly BarWidth
\* cells: floor(current / total * BarWidth) fill glyphs followed by the
\* remaining empty glyphs.
C23_BarCells ==
    (out # NoLine /\ out.tot > 0) =>
        /\ out.filled + out.empty = BarWidth
        /\ out.filled = (out.cur * BarWidth) \div out.tot


\* C24: on a bar with total >= 0, set_progress(value) leaves current equal to
\* value clamped into [0, total] (0 below, total above, value itself inside,
\* also when value is lower than the previous current) and always renders
\* the line for that current, whatever the time since the last update.
C24_SetProgressClamps ==
    (pev.op = "set_progress" /\ total >= 0) =>
        /\ current \in 0..total
        /\ pev.arg \in 0..total => current = pev.arg
        /\ pev.arg < 0 => current = 0
        /\ pev.arg > total => current = total
        /\ pev.rendered /\ ~pev.failed
        /\ painted = pev.at
        /\ out # NoLine /\ out.cur = current /\ out.tot = total

\* C24 witness: set_progress with a value lower than the previous current,
\* called inside the throttle interval of a rendered update, has rendered
C24_Witness ==
    /\ pev.op = "set_progress"
    /\ total > 0
    /\ pev.arg \in 0..total
    /\ pev.arg < pev.prev
    /\ last_update > start_time
    /\ pev.at - last_update < Throttle
    /\ pev.rendered
    /\ out.cur = pev.arg


\* C25: with show_eta, a rendered line of a bar with total >= 0 carries the
\* ETA field exactly when 0 < current < total, no time field when
\* current = 0 and the bar is incomplete, and the "Done in" field whenever
\* the bar is complete (current = total).
C25_TimeField ==
    (out # NoLine /\ show_eta /\ out.tot >= 0) =>
        /\ out.time_field = "ETA" <=> (0 < out.cur /\ out.cur < out.tot)
        /\ (out.cur = 0 /\ out.cur # out.tot) => out.time_field = "none"
        /\ out.cur = out.tot => out.time_field = "Done"


\* C26: a MatrixRain with density 0 has no active column at any point of
\* run(), writes no glyph in any loop iteration, and when run() has returned
\* or let an interruption propagate the cursor is shown and the screen is
\* cleared.
C26_ZeroDensity ==
    (ekind = "matrix" /\ edensity = 0) =>
        /\ \A x \in Xs : columns[x] = NoColumn
        /\ epainted = 0
        /\ epc \in {"returned", "raised"} => (ecursor /\ escreen = "cleared")

\* C26 witness: a run() with density 0 has gone through loop iterations with
\* the cursor hidden and has returned
C26_Witness ==
    /\ ekind = "matrix"
    /\ edensity = 0
    /\ ~edebug
    /\ eframes >= 2
    /\ epc = "returned"
    /\ ecursor
    /\ escreen = "cleared"


\* C27: the k-th frame written for a spinner since its last start() is
\* frames[k mod N], k counting from 0: the frames on the terminal cycle
\* through the style's list in order, so the frames k and k + N are the
\* same glyph.
C27_FrameCycle ==
    \A s \in Spinners : \A i \in 1..Len(glyphs[s]) :
        glyphs[s][i] = (i - 1) % NFrames


\* C28: start() on a spinner whose running flag is set returns at once: no
\* start frame is left on the stack (no hide-cursor and no thread creation
\* follow), and the cursor, the running flag, the lifecycle state, the
\* thread handle, the loop threads, the message and the suffix are unchanged.
C28_StartNoop ==
    [][\A s \in Spinners :
          (call_start(s) /\ running[s]) =>
              UNCHANGED <<stack, cursor, running, state, thread, tpc, towner,
                          message, suffix>>]_vars

\* C28 witness: a second start() on a RUNNING spinner has returned early,
\* the spinner still has its first thread and the cursor is still hidden
C28_Witness ==
    /\ ev.kind = "start_noop"
    /\ state[ev.s] = "RUNNING"
    /\ running[ev.s]
    /\ thread[ev.s] # 0
    /\ \A t \in Threads : is_alive(t) => thread[ev.s] = t
    /\ ~cursor


\* C29: spinner blocks on other threads may enter and leave while the guard
\* runs: no list operation fails, and when the guard has finished, every
\* spinner that stayed in the guard's list from the delivery of the signal
\* to that moment has had stop() called on it by the guard.
C29_RegistryIterationSafe ==
    /\ ~gfailed
    /\ gpc \in {"exit", "exited"} =>
          \A b \in gkept : bui[b] = gu => b \in gstopped

\* C30: when the guard has restored the cursor and is about to exit the
\* process, every spinner of every TerminalUI instance that was running
\* when the signal was delivered has been stopped.
C30_GuardProcessWide ==
    gpc = "exit" => \A b \in gran : ~brunning[b]


\* self.running as the loop thread t reads it
flag_of(t) == IF towner[t] = 0 THEN FALSE ELSE running[towner[t]]

\* C31: cancellation is cooperative. A live loop whose spinner has the flag
\* cleared eventually ends, unless a later start() sets the flag again; a
\* loop ends only by its own test of the flag finding it cleared; the flag
\* is tested once per tick (every step of a loop follows the cycle test,
\* clear, write, test); and a loop that has seen the flag cleared takes no
\* further step, so it writes no frame (a frame is written only by the
\* write step of a live loop).
C31_CooperativeCancel ==
    /\ \A t \in Threads :
          (is_alive(t) /\ ~flag_of(t)) ~> (tpc[t] = "dead" \/ flag_of(t))
    /\ [][\A t \in Threads :
            /\ (tpc[t] # "dead" /\ tpc'[t] = "dead") =>
                   (tpc[t] = "check" /\ ~flag_of(t))
            /\ tpc'[t] # tpc[t] =>
                   <<tpc[t], tpc'[t]>> \in
                       {<<"unborn", "check">>, <<"check", "clear">>,
                        <<"check", "dead">>, <<"clear", "write">>,
                        <<"write", "check">>}
            /\ tpc[t] = "dead" => tpc'[t] = "dead"]_vars
    /\ [][(line' # line /\ line' # 0) =>
            \E t \in Threads : /\ tpc[t] = "write" /\ tpc'[t] = "check"
                                /\ towner[t] = line']_vars

\* C31 witness: stop() returned while the loop was still alive (its join
\* timed out), no start() followed, and the loop has since ended
C31_Witness ==
    /\ ev.kind = "stop_ret"
    /\ ev.alive
    /\ ~running[ev.s]
    /\ thread[ev.s] # 0
    /\ tpc[thread[ev.s]] = "dead"


\* the cells of the buffer within one row and one column of (y, x)
Neighbours(y, x) ==
    {p \in FRows \X FCols :
        /\ p[1] \in (y - 1)..(y + 1)
        /\ p[2] \in (x - 1)..(x + 1)}

\* C32: in a FireEffect every cell's heat is in 0..MaxHeat and the bottom
\* row stays at MaxHeat; the update loops never recompute a bottom cell, and
\* the heat they store in a cell is max(0, floor(S / n) - c) for some c in
\* {0, 1, 2}, where S is the sum of the heat of the cells of the buffer in
\* the 3x3 block around it and n > 0 the number of those cells (cells
\* beyond an edge are left out, none is taken from the opposite edge).
C32_FireHeat ==
    /\ [](/\ \A y \in FRows : \A x \in FCols : fire[y][x] \in 0..MaxHeat
          /\ ekind = "fire" =>
                \A x \in FCols : fire[FireHeight - 1][x] = MaxHeat)
    /\ [][fire' # fire /\ ekind = "fire" =>
            LET N == Neighbours(fy, fx)
                S == Sum([p \in N |-> fire[p[1]][p[2]]], N)
            IN  /\ fy < FireHeight - 1
                /\ Cardinality(N) > 0
                /\ \E c \in {0, 1, 2} :
                      fire'[fy][fx] = Max(0, (S \div Cardinality(N)) - c)
                /\ \A y \in FRows : \A x \in FCols :
                      <<y, x>> # <<fy, fx>> => fire'[y][x] = fire[y][x]]_vars

\* C32 witness: after two ticks the cells above the bottom row carry heat
\* below the maximum, a corner cell and the middle cell differing
C32_Witness ==
    /\ ekind = "fire"
    /\ eframes >= 2
    /\ epc = "loop"
    /\ fire[0][0] \in 1..(MaxHeat - 1)
    /\ fire[0][1] \in 1..(MaxHeat - 1)
    /\ fire[0][0] # fire[0][1]
    /\ \A x \in FCols : fire[FireHeight - 1][x] = MaxHeat


\* the positions of the screen that hold a column
Active(cols) == {x \in Xs : cols[x] # NoColumn}

\* C33: in every loop iteration of MatrixRain a position that holds None
\* keeps None, and with no active column no glyph is written; an active
\* column either advances by its speed or is reset, and it is reset only
\* if its advanced position is beyond the bottom of the screen by more than
\* the length of its glyph list; a reset leaves a column above the screen
\* or None (always None with density 0, always a column with density 1);
\* so the number of active columns never grows after initialisation.
C33_ColumnReset ==
    [][(ekind = "matrix" /\ epc = "loop" /\ eframes' # eframes) =>
          /\ \A x \in Xs :
                IF columns[x] = NoColumn
                THEN columns'[x] = NoColumn
                ELSE \/ columns'[x] = [y |-> columns[x].y + columns[x].speed,
                                       speed |-> columns[x].speed]
                     \/ /\ columns[x].y + columns[x].speed >
                               2 * RainHeight + 2 * RainHeight
                        /\ \/ columns'[x] = NoColumn /\ edensity < 100
                           \/ /\ columns'[x] # NoColumn
                              /\ columns'[x].y < 0
                              /\ edensity > 0
          /\ Active(columns) = {} => epainted' = 0
          /\ epainted' <= RainHeight * Cardinality(Active(columns))
          /\ Cardinality(Active(columns')) <= Cardinality(Active(columns))]_vars

\* C33 witness: with the default density one position holds a column that
\* was reset and now starts above the screen, another holds None
C33_Witness ==
    /\ ekind = "matrix"
    /\ edensity = 10
    /\ eframes >= 3
    /\ \E x \in Xs : columns[x] # NoColumn /\ columns[x].y < 0
    /\ \E x \in Xs : columns[x] = NoColumn

C35_CurrentNotNegative == total >= 0 => current >= 0

\* C36: the message and the suffix of every frame a loop writes are a pair
\* the spinner held at one instant: the values of its two fields at some
\* moment of its life.
C36_PairHeld ==
    shown.s # 0 => <<shown.message.head, shown.suffix.head>> \in held[shown.s]

====
